---- MODULE Spec2Model ----
(***************************************************************************)
(* Model of fabric-network/lib/transaction.js: the single-use Transaction  *)
(* object, its submit protocol (endorse, validate, start listening,        *)
(* commit, wait for events) and its evaluate protocol (query).             *)
(*                                                                         *)
(* One Transaction object is modelled.  Each element of Calls is one call  *)
(* of submit or evaluate on it; calls are made in index order and may      *)
(* overlap, since an async function runs synchronously only up to its      *)
(* first await.  The collaborators (channel, event handler, query handler) *)
(* are the environment: their results are chosen nondeterministically.     *)
(***************************************************************************)
EXTENDS Integers, Sequences, FiniteSets, TLC

\* ---------------------------------------------------------------- bounds
MaxCalls == 2
MaxArgs == 2
MaxResp == 3

Calls == 1..MaxCalls

\* ------------------------------------------------------- JavaScript values
\* A value is a record [type, v]; v is a sequence of text tokens.
Str(s) == [type |-> "string", v |-> s]
Num(s) == [type |-> "number", v |-> s]
Buffer(s) == [type |-> "Buffer", v |-> s]
Obj(s) == [type |-> "object", v |-> s]
Undefined == [type |-> "undefined", v |-> <<>>]
Null == [type |-> "null", v |-> <<>>]

TypeOf(x) == x.type

\* JavaScript truthiness, as used by `||` and `if (...)`.
Truthy(x) ==
    CASE x.type \in {"undefined", "null"} -> FALSE
      [] x.type = "string" -> x.v # <<>>
      [] x.type = "number" -> x.v # <<"0">>
      [] OTHER -> TRUE

\* util.format('%j', x): JSON text of a value.
FormatJ(x) ==
    CASE x.type = "string" -> <<"\"">> \o x.v \o <<"\"">>
      [] x.type = "undefined" -> <<"undefined">>
      [] x.type = "null" -> <<"null">>
      [] OTHER -> x.v

\* Array.prototype.join: the parts separated by sep.
RECURSIVE Join(_, _)
Join(parts, sep) ==
    IF parts = <<>> THEN <<>>
    ELSE IF Len(parts) = 1 THEN parts[1]
    ELSE parts[1] \o sep \o Join(Tail(parts), sep)

MakeError(name, message) == [name |-> name, message |-> message]

\* ------------------------------------------------------------ input sets
ArgValues == {Str(<<"a">>), Num(<<"7">>)}
ArgLists == UNION {[1..n -> ArgValues] : n \in 0..MaxArgs}

ErrorEntry(m) == [kind |-> "Error", message |-> m, status |-> Undefined, payload |-> Undefined]
ResponseEntry(s, p) == [kind |-> "Response", message |-> <<>>, status |-> s, payload |-> p]

Entries ==
    { ErrorEntry(<<"x">>), ErrorEntry(<<"y">>),
      ResponseEntry(Num(<<"200">>), Buffer(<<"OK">>)),
      ResponseEntry(Num(<<"500">>), Undefined) }
ResponseLists == UNION {[1..n -> Entries] : n \in 0..MaxResp}

Statuses == {Str(<<"SUCCESS">>), Str(<<"BAD_REQUEST">>), Undefined}
TransientMaps == {Obj(<<"t">>)}
Factories == {"noOp", "custom"}
QueryResults == {Buffer(<<"Q">>)}

ChaincodeId == "cc"
TransactionId == "tx"
Name == "fn"

TransportError == MakeError("TransportError", <<"transport">>)
ListenError == MakeError("ListenError", <<"listen">>)
ConfirmationFailed == MakeError("ConfirmationFailed", <<"timeout">>)
QueryError == MakeError("QueryError", <<"query">>)

\* ----------------------------------------------------------------- state
VARIABLES
    isInvoked,             \* this._isInvoked
    transientMap,          \* this._transientMap
    createTxEventHandler,  \* this._createTxEventHandler: which factory is set
    pc,                    \* position of each call
    kind,                  \* "submit" or "evaluate"
    args,                  \* the call's arguments
    eventHandler,          \* submit's local eventHandler
    proposalResponses,     \* submit's local proposalResponses
    validResponses,        \* submit's local validResponses
    invalidResponses,      \* the invalidResponses _validatePeerResponses returned with it
    response,              \* submit's local response.status
    outcome,               \* how the call's promise settled
    log                    \* collaborator operations, in the order they happen

vars == <<isInvoked, transientMap, createTxEventHandler, pc, kind, args,
          eventHandler, proposalResponses, validResponses, invalidResponses, response, outcome, log>>

Pending == [type |-> "pending", value |-> Undefined, error |-> MakeError("", <<>>)]
Returned(x) == [type |-> "return", value |-> x, error |-> MakeError("", <<>>)]
Thrown(e) == [type |-> "throw", value |-> Undefined, error |-> e]

Event(c, op, data) == [call |-> c, op |-> op, data |-> data]

Init ==
    /\ isInvoked = FALSE
    /\ transientMap = Null
    /\ createTxEventHandler = "noOp"
    /\ pc = [c \in Calls |-> "idle"]
    /\ kind = [c \in Calls |-> "none"]
    /\ args = [c \in Calls |-> <<>>]
    /\ eventHandler = [c \in Calls |-> "none"]
    /\ proposalResponses = [c \in Calls |-> <<>>]
    /\ validResponses = [c \in Calls |-> <<>>]
    /\ invalidResponses = [c \in Calls |-> <<>>]
    /\ response = [c \in Calls |-> Undefined]
    /\ outcome = [c \in Calls |-> Pending]
    /\ log = <<>>

\* ------------------------------------------------------- pure functions
IsInvalid_FirstOnly(a) == a # <<>> /\ TypeOf(a[1]) # "string"

IsInvalid(a) == \E i \in DOMAIN a : TypeOf(a[i]) # "string"

verifyArguments(a) ==
    IF IsInvalid(a)
    THEN [threw |-> TRUE,
          error |-> MakeError("InvalidArgument",
                       <<"Transaction arguments must be strings: ">>
                       \o Join([i \in DOMAIN a |-> FormatJ(a[i])], <<", ">>))]
    ELSE [threw |-> FALSE, error |-> MakeError("", <<>>)]

setInvokedOrThrow_NoThrow(inv) ==
    [threw |-> FALSE, isInvoked |-> TRUE, error |-> MakeError("", <<>>)]

setInvokedOrThrow_NoSet(inv) ==
    IF inv
    THEN [threw |-> TRUE, isInvoked |-> inv,
          error |-> MakeError("AlreadyInvoked", <<"Transaction has already been invoked">>)]
    ELSE [threw |-> FALSE, isInvoked |-> inv, error |-> MakeError("", <<>>)]

setInvokedOrThrow(inv) ==
    IF inv
    THEN [threw |-> TRUE, isInvoked |-> inv,
          error |-> MakeError("AlreadyInvoked", <<"Transaction has already been invoked">>)]
    ELSE [threw |-> FALSE, isInvoked |-> TRUE, error |-> MakeError("", <<>>)]

IsError_OrBadStatus(r) == r.kind = "Error" \/ r.status = Num(<<"500">>)

IsError(r) == r.kind = "Error"

ValidOf_All(responses) == responses

ValidOf(responses) == SelectSeq(responses, LAMBDA r : ~IsError(r))
InvalidOf(responses) == SelectSeq(responses, IsError)
InvalidResponseMsgs_Reversed(responses) ==
    [i \in DOMAIN InvalidOf(responses) |->
        InvalidOf(responses)[Len(InvalidOf(responses)) + 1 - i].message]

InvalidResponseMsgs(responses) ==
    [i \in DOMAIN InvalidOf(responses) |-> InvalidOf(responses)[i].message]

NoValidMessage(msgs) ==
    Join(<< <<"No valid responses from any peers. ", ToString(Len(msgs)),
              " peer error responses:">> >> \o msgs,
         <<"\n    ">>)

validatePeerResponses_NoFatal(responses) ==
    IF Len(responses) = 0
    THEN [threw |-> TRUE,
          error |-> MakeError("NoResponses", <<"No results were returned from the request">>),
          validResponses |-> <<>>, invalidResponses |-> <<>>]
    ELSE [threw |-> FALSE, error |-> MakeError("", <<>>),
          validResponses |-> IF Len(ValidOf(responses)) = 0 THEN responses
                             ELSE ValidOf(responses),
          invalidResponses |-> InvalidOf(responses)]

validatePeerResponses(responses) ==
    IF Len(responses) = 0
    THEN [threw |-> TRUE,
          error |-> MakeError("NoResponses", <<"No results were returned from the request">>),
          validResponses |-> <<>>, invalidResponses |-> <<>>]
    ELSE IF Len(ValidOf(responses)) = 0
    THEN [threw |-> TRUE,
          error |-> MakeError("NoValidResponses", NoValidMessage(InvalidResponseMsgs(responses))),
          validResponses |-> <<>>, invalidResponses |-> InvalidOf(responses)]
    ELSE [threw |-> FALSE, error |-> MakeError("", <<>>),
          validResponses |-> ValidOf(responses),
          invalidResponses |-> InvalidOf(responses)]

IsSuccessStatus_Loose(status) == ~Truthy(status) \/ status = Str(<<"SUCCESS">>)

IsSuccessStatus(status) == status = Str(<<"SUCCESS">>)

CommitRejected(status) ==
    MakeError("CommitRejected",
        <<"Failed to send peer responses for transaction ">> \o FormatJ(Str(<<TransactionId>>))
        \o <<" to orderer. Response status: ">> \o FormatJ(status))

SubmitResult_Last(valid) ==
    IF Truthy(valid[Len(valid)].payload) THEN valid[Len(valid)].payload ELSE Null

SubmitResult(valid) ==
    IF Truthy(valid[1].payload) THEN valid[1].payload ELSE Null

\* Whether a handler's startListening or waitForEvents can reject:
\* noOpTxEventHandler's are `async () => {}`.
CanReject_Any(h) == TRUE

CanReject(h) == h # "noOp"

Query_NoTransient(a, tm) ==
    [chaincodeId |-> ChaincodeId, txId |-> TransactionId, fcn |-> Name, args |-> a,
     transientMap |-> Null]

Query(a, tm) ==
    [chaincodeId |-> ChaincodeId, txId |-> TransactionId, fcn |-> Name, args |-> a,
     transientMap |-> tm]

Request(a, tm) ==
    [chaincodeId |-> ChaincodeId, txId |-> TransactionId, fcn |-> Name, args |-> a,
     transientMap |-> IF Truthy(tm) THEN tm ELSE Undefined]

\* ---------------------------------------------------------------- actions
\* An async function runs synchronously up to its first await and then from
\* one await to the next: each action below is one such run of submit or
\* evaluate, or a call of a setter.

U(c, f, x) == [f EXCEPT ![c] = x]

\* setEventHandlerStrategy(factoryFunction).  The factory is read only by a
\* call that finds the object not yet invoked (line 116, in the run that sets
\* the flag), so the setter is modelled while the object is not yet invoked.
setEventHandlerStrategy(f) ==
    /\ ~isInvoked
    /\ createTxEventHandler # f
    /\ createTxEventHandler' = f
    /\ UNCHANGED <<isInvoked, transientMap, pc, kind, args, eventHandler,
                   proposalResponses, validResponses, invalidResponses, response, outcome, log>>

\* setTransient(transientMap).  As for the factory, the transient map is read
\* only in the run that sets the flag (lines 124 and 227).
setTransient(tm) ==
    /\ ~isInvoked
    /\ transientMap # tm
    /\ transientMap' = tm
    /\ UNCHANGED <<isInvoked, createTxEventHandler, pc, kind, args, eventHandler,
                   proposalResponses, validResponses, invalidResponses, response, outcome, log>>

\* as submit, with _setInvokedOrThrow() called before verifyArguments(args)
submit_CheckFirst(c, a) ==
    /\ pc[c] = "idle"
    /\ IF c = 1 THEN TRUE ELSE pc[c - 1] # "idle"
    /\ kind' = U(c, kind, "submit")
    /\ args' = U(c, args, a)
    /\ IF setInvokedOrThrow(isInvoked).threw
       THEN /\ outcome' = U(c, outcome, Thrown(setInvokedOrThrow(isInvoked).error))
            /\ pc' = U(c, pc, "done")
            /\ isInvoked' = setInvokedOrThrow(isInvoked).isInvoked
            /\ UNCHANGED <<eventHandler, log>>
       ELSE IF verifyArguments(a).threw
       THEN /\ outcome' = U(c, outcome, Thrown(verifyArguments(a).error))
            /\ pc' = U(c, pc, "done")
            /\ isInvoked' = setInvokedOrThrow(isInvoked).isInvoked
            /\ UNCHANGED <<eventHandler, log>>
       ELSE /\ isInvoked' = setInvokedOrThrow(isInvoked).isInvoked
            /\ eventHandler' = U(c, eventHandler, createTxEventHandler)
            /\ log' = Append(log, Event(c, "sendTransactionProposal",
                                        Request(a, transientMap)))
            /\ pc' = U(c, pc, "sendTransactionProposal")
            /\ UNCHANGED outcome
    /\ UNCHANGED <<transientMap, createTxEventHandler,
                   proposalResponses, validResponses, invalidResponses, response>>

\* submit(...a), up to `await channel.sendTransactionProposal(request)`
submit(c, a) ==
    /\ pc[c] = "idle"
    /\ IF c = 1 THEN TRUE ELSE pc[c - 1] # "idle"
    /\ kind' = U(c, kind, "submit")
    /\ args' = U(c, args, a)
    /\ IF verifyArguments(a).threw
       THEN /\ outcome' = U(c, outcome, Thrown(verifyArguments(a).error))
            /\ pc' = U(c, pc, "done")
            /\ UNCHANGED <<isInvoked, eventHandler, log>>
       ELSE IF setInvokedOrThrow(isInvoked).threw
       THEN /\ outcome' = U(c, outcome, Thrown(setInvokedOrThrow(isInvoked).error))
            /\ pc' = U(c, pc, "done")
            /\ isInvoked' = setInvokedOrThrow(isInvoked).isInvoked
            /\ UNCHANGED <<eventHandler, log>>
       ELSE /\ isInvoked' = setInvokedOrThrow(isInvoked).isInvoked
            /\ eventHandler' = U(c, eventHandler, createTxEventHandler)
            /\ log' = Append(log, Event(c, "sendTransactionProposal",
                                        Request(a, transientMap)))
            /\ pc' = U(c, pc, "sendTransactionProposal")
            /\ UNCHANGED outcome
    /\ UNCHANGED <<transientMap, createTxEventHandler,
                   proposalResponses, validResponses, invalidResponses, response>>

\* as sendTransactionProposalFails, with the failure taken as an empty result
sendTransactionProposalFails_AsEmpty(c) ==
    /\ pc[c] = "sendTransactionProposal"
    /\ outcome' = U(c, outcome, Thrown(validatePeerResponses(<<>>).error))
    /\ pc' = U(c, pc, "done")
    /\ UNCHANGED <<isInvoked, transientMap, createTxEventHandler, kind, args, eventHandler,
                   proposalResponses, validResponses, invalidResponses, response, log>>

\* the proposal promise rejects: submit rejects with the same error
sendTransactionProposalFails(c) ==
    /\ pc[c] = "sendTransactionProposal"
    /\ outcome' = U(c, outcome, Thrown(TransportError))
    /\ pc' = U(c, pc, "done")
    /\ UNCHANGED <<isInvoked, transientMap, createTxEventHandler, kind, args, eventHandler,
                   proposalResponses, validResponses, invalidResponses, response, log>>

\* as sendTransactionProposalReturns, with startListening() not awaited
sendTransactionProposalReturns_NoAwait(c, rs) ==
    /\ pc[c] = "sendTransactionProposal"
    /\ proposalResponses' = U(c, proposalResponses, rs)
    /\ IF validatePeerResponses(rs).threw
       THEN /\ outcome' = U(c, outcome, Thrown(validatePeerResponses(rs).error))
            /\ pc' = U(c, pc, "done")
            /\ log' = Append(log, Event(c, "sendTransactionProposal:return", rs))
            /\ UNCHANGED <<validResponses, invalidResponses>>
       ELSE /\ validResponses' = U(c, validResponses, validatePeerResponses(rs).validResponses)
            /\ invalidResponses' =
                  U(c, invalidResponses, validatePeerResponses(rs).invalidResponses)
            /\ log' = log \o << Event(c, "sendTransactionProposal:return", rs),
                                Event(c, "startListening", <<>>),
                                Event(c, "sendTransaction",
                                      validatePeerResponses(rs).validResponses) >>
            /\ pc' = U(c, pc, "sendTransaction")
            /\ UNCHANGED outcome
    /\ UNCHANGED <<isInvoked, transientMap, createTxEventHandler, kind, args, eventHandler,
                   response>>

\* the proposal promise resolves with responses rs: submit runs from
\* `const proposalResponses = results[0]` to `await eventHandler.startListening()`
sendTransactionProposalReturns(c, rs) ==
    /\ pc[c] = "sendTransactionProposal"
    /\ proposalResponses' = U(c, proposalResponses, rs)
    /\ IF validatePeerResponses(rs).threw
       THEN /\ outcome' = U(c, outcome, Thrown(validatePeerResponses(rs).error))
            /\ pc' = U(c, pc, "done")
            /\ log' = Append(log, Event(c, "sendTransactionProposal:return", rs))
            /\ UNCHANGED <<validResponses, invalidResponses>>
       ELSE /\ validResponses' = U(c, validResponses, validatePeerResponses(rs).validResponses)
            /\ invalidResponses' =
                  U(c, invalidResponses, validatePeerResponses(rs).invalidResponses)
            /\ log' = log \o << Event(c, "sendTransactionProposal:return", rs),
                                Event(c, "startListening", <<>>) >>
            /\ pc' = U(c, pc, "startListening")
            /\ UNCHANGED outcome
    /\ UNCHANGED <<isInvoked, transientMap, createTxEventHandler, kind, args, eventHandler,
                   response>>

\* startListening resolves (noOpTxEventHandler.startListening always does):
\* submit runs to `await channel.sendTransaction({proposalResponses: validResponses, proposal})`
startListeningReturns(c) ==
    /\ pc[c] = "startListening"
    /\ log' = log \o << Event(c, "startListening:return", <<>>),
                        Event(c, "sendTransaction", validResponses[c]) >>
    /\ pc' = U(c, pc, "sendTransaction")
    /\ UNCHANGED <<isInvoked, transientMap, createTxEventHandler, kind, args, eventHandler,
                   proposalResponses, validResponses, invalidResponses, response, outcome>>

\* a strategy's startListening rejects: submit rejects with the same error
startListeningFails(c) ==
    /\ pc[c] = "startListening"
    /\ CanReject(eventHandler[c])
    /\ outcome' = U(c, outcome, Thrown(ListenError))
    /\ pc' = U(c, pc, "done")
    /\ UNCHANGED <<isInvoked, transientMap, createTxEventHandler, kind, args, eventHandler,
                   proposalResponses, validResponses, invalidResponses, response, log>>

\* as sendTransactionFails, with the commit sent again after a failure
sendTransactionFails_Retry(c) ==
    /\ pc[c] = "sendTransaction"
    /\ log' = Append(log, Event(c, "sendTransaction", validResponses[c]))
    /\ UNCHANGED <<isInvoked, transientMap, createTxEventHandler, kind, args, eventHandler,
                   proposalResponses, validResponses, invalidResponses, response, pc, outcome>>

\* the commit promise rejects: submit rejects with the same error
sendTransactionFails(c) ==
    /\ pc[c] = "sendTransaction"
    /\ outcome' = U(c, outcome, Thrown(TransportError))
    /\ pc' = U(c, pc, "done")
    /\ UNCHANGED <<isInvoked, transientMap, createTxEventHandler, kind, args, eventHandler,
                   proposalResponses, validResponses, invalidResponses, response, log>>

\* the commit promise resolves with a response whose status is st: submit runs
\* from `if (response.status !== 'SUCCESS')` to the throw or to
\* `await eventHandler.waitForEvents()`
sendTransactionReturns(c, st) ==
    /\ pc[c] = "sendTransaction"
    /\ response' = U(c, response, st)
    /\ IF ~IsSuccessStatus(st)
       THEN /\ log' = log \o << Event(c, "sendTransaction:return", st),
                                Event(c, "cancelListening", <<>>) >>
            /\ outcome' = U(c, outcome, Thrown(CommitRejected(st)))
            /\ pc' = U(c, pc, "done")
       ELSE /\ log' = log \o << Event(c, "sendTransaction:return", st),
                                Event(c, "waitForEvents", <<>>) >>
            /\ pc' = U(c, pc, "waitForEvents")
            /\ UNCHANGED outcome
    /\ UNCHANGED <<isInvoked, transientMap, createTxEventHandler, kind, args, eventHandler,
                   proposalResponses, validResponses, invalidResponses>>

\* waitForEvents resolves (noOpTxEventHandler.waitForEvents always does):
\* `return validResponses[0].response.payload || null`
waitForEventsReturns(c) ==
    /\ pc[c] = "waitForEvents"
    /\ log' = Append(log, Event(c, "waitForEvents:return", <<>>))
    /\ outcome' = U(c, outcome, Returned(SubmitResult(validResponses[c])))
    /\ pc' = U(c, pc, "done")
    /\ UNCHANGED <<isInvoked, transientMap, createTxEventHandler, kind, args, eventHandler,
                   proposalResponses, validResponses, invalidResponses, response>>

\* as waitForEventsFails, with the rejection caught and the payload returned
waitForEventsFails_Swallow(c) ==
    /\ pc[c] = "waitForEvents"
    /\ CanReject(eventHandler[c])
    /\ outcome' = U(c, outcome, Returned(SubmitResult(validResponses[c])))
    /\ pc' = U(c, pc, "done")
    /\ UNCHANGED <<isInvoked, transientMap, createTxEventHandler, kind, args, eventHandler,
                   proposalResponses, validResponses, invalidResponses, response, log>>

\* a strategy's waitForEvents rejects (timeout, or an event reporting a failed
\* validation): submit rejects with the same error
waitForEventsFails(c) ==
    /\ pc[c] = "waitForEvents"
    /\ CanReject(eventHandler[c])
    /\ outcome' = U(c, outcome, Thrown(ConfirmationFailed))
    /\ pc' = U(c, pc, "done")
    /\ UNCHANGED <<isInvoked, transientMap, createTxEventHandler, kind, args, eventHandler,
                   proposalResponses, validResponses, invalidResponses, response, log>>

\* as evaluate, querying through a transaction proposal on the channel
evaluate_ViaProposal(c, a) ==
    /\ pc[c] = "idle"
    /\ IF c = 1 THEN TRUE ELSE pc[c - 1] # "idle"
    /\ kind' = U(c, kind, "evaluate")
    /\ args' = U(c, args, a)
    /\ IF verifyArguments(a).threw
       THEN /\ outcome' = U(c, outcome, Thrown(verifyArguments(a).error))
            /\ pc' = U(c, pc, "done")
            /\ UNCHANGED <<isInvoked, log>>
       ELSE IF setInvokedOrThrow(isInvoked).threw
       THEN /\ outcome' = U(c, outcome, Thrown(setInvokedOrThrow(isInvoked).error))
            /\ pc' = U(c, pc, "done")
            /\ isInvoked' = setInvokedOrThrow(isInvoked).isInvoked
            /\ UNCHANGED log
       ELSE /\ isInvoked' = setInvokedOrThrow(isInvoked).isInvoked
            /\ log' = Append(log, Event(c, "sendTransactionProposal",
                                        Request(a, transientMap)))
            /\ pc' = U(c, pc, "queryChaincode")
            /\ UNCHANGED outcome
    /\ UNCHANGED <<transientMap, createTxEventHandler, eventHandler,
                   proposalResponses, validResponses, invalidResponses, response>>

\* evaluate(...a), up to `return queryHandler.queryChaincode(...)`
evaluate(c, a) ==
    /\ pc[c] = "idle"
    /\ IF c = 1 THEN TRUE ELSE pc[c - 1] # "idle"
    /\ kind' = U(c, kind, "evaluate")
    /\ args' = U(c, args, a)
    /\ IF verifyArguments(a).threw
       THEN /\ outcome' = U(c, outcome, Thrown(verifyArguments(a).error))
            /\ pc' = U(c, pc, "done")
            /\ UNCHANGED <<isInvoked, log>>
       ELSE IF setInvokedOrThrow(isInvoked).threw
       THEN /\ outcome' = U(c, outcome, Thrown(setInvokedOrThrow(isInvoked).error))
            /\ pc' = U(c, pc, "done")
            /\ isInvoked' = setInvokedOrThrow(isInvoked).isInvoked
            /\ UNCHANGED log
       ELSE /\ isInvoked' = setInvokedOrThrow(isInvoked).isInvoked
            /\ log' = Append(log, Event(c, "queryChaincode", Query(a, transientMap)))
            /\ pc' = U(c, pc, "queryChaincode")
            /\ UNCHANGED outcome
    /\ UNCHANGED <<transientMap, createTxEventHandler, eventHandler,
                   proposalResponses, validResponses, invalidResponses, response>>

\* the query promise resolves with q: evaluate resolves with the same value
queryChaincodeReturns(c, q) ==
    /\ pc[c] = "queryChaincode"
    /\ log' = Append(log, Event(c, "queryChaincode:return", q))
    /\ outcome' = U(c, outcome, Returned(q))
    /\ pc' = U(c, pc, "done")
    /\ UNCHANGED <<isInvoked, transientMap, createTxEventHandler, kind, args, eventHandler,
                   proposalResponses, validResponses, invalidResponses, response>>

\* as queryChaincodeFails, with the object made usable again after the failure
queryChaincodeFails_Reset(c) ==
    /\ pc[c] = "queryChaincode"
    /\ log' = Append(log, Event(c, "queryChaincode:throw", QueryError.message))
    /\ outcome' = U(c, outcome, Thrown(QueryError))
    /\ pc' = U(c, pc, "done")
    /\ isInvoked' = FALSE
    /\ UNCHANGED <<transientMap, createTxEventHandler, kind, args, eventHandler,
                   proposalResponses, validResponses, invalidResponses, response>>

\* the query promise rejects: evaluate rejects with the same error
queryChaincodeFails(c) ==
    /\ pc[c] = "queryChaincode"
    /\ log' = Append(log, Event(c, "queryChaincode:throw", QueryError.message))
    /\ outcome' = U(c, outcome, Thrown(QueryError))
    /\ pc' = U(c, pc, "done")
    /\ UNCHANGED <<isInvoked, transientMap, createTxEventHandler, kind, args, eventHandler,
                   proposalResponses, validResponses, invalidResponses, response>>

Next ==
    \/ \E f \in Factories : setEventHandlerStrategy(f)
    \/ \E tm \in TransientMaps \cup {Null} : setTransient(tm)
    \/ \E c \in Calls, a \in ArgLists : submit(c, a)
    \/ \E c \in Calls : sendTransactionProposalFails(c)
    \/ \E c \in Calls, rs \in ResponseLists : sendTransactionProposalReturns(c, rs)
    \/ \E c \in Calls : startListeningReturns(c)
    \/ \E c \in Calls : startListeningFails(c)
    \/ \E c \in Calls : sendTransactionFails(c)
    \/ \E c \in Calls, st \in Statuses : sendTransactionReturns(c, st)
    \/ \E c \in Calls : waitForEventsReturns(c)
    \/ \E c \in Calls : waitForEventsFails(c)
    \/ \E c \in Calls, a \in ArgLists : evaluate(c, a)
    \/ \E c \in Calls, q \in QueryResults : queryChaincodeReturns(c, q)
    \/ \E c \in Calls : queryChaincodeFails(c)

Spec == Init /\ [][Next]_vars

\* The event loop runs the continuation of a promise that has resolved; the
\* no-op handler's promises resolve at once.  Promises of the channel, of the
\* query handler and of a configured strategy need never settle.
LiveSpec ==
    /\ Spec
    /\ \A c \in Calls :
         /\ WF_vars(eventHandler[c] = "noOp" /\ startListeningReturns(c))
         /\ WF_vars(eventHandler[c] = "noOp" /\ waitForEventsReturns(c))

\* ------------------------------------------------------------ properties
Called(c) == pc[c] # "idle"
Failed(c, name) ==
    pc[c] = "done" /\ outcome[c].type = "throw" /\ outcome[c].error.name = name
Succeeded(c) == pc[c] = "done" /\ outcome[c].type = "return"
AllStrings(a) == \A i \in DOMAIN a : a[i].type = "string"
Ops(c, op) == {i \in DOMAIN log : log[i].call = c /\ log[i].op = op}
Success == [type |-> "string", v |-> <<"SUCCESS">>]
NonErrors(r) == {j \in DOMAIN r : r[j].kind # "Error"}
First(S) == CHOOSE j \in S : \A k \in S : j <= k

\* C1 (as stated): of two successive calls on the object, each submit or
\* evaluate, the second always fails with AlreadyInvoked, however the first
\* ended.  Calls are made in index order.
C1_SecondCallAlwaysAlreadyInvoked ==
    \A c \in Calls : (c > 1 /\ Called(c)) => Failed(c, "AlreadyInvoked")

\* C1 (amended): of two successive calls whose arguments are all strings, the
\* second fails with AlreadyInvoked, whether the first succeeded, failed or is
\* still running.
C1_SecondStringCallAlreadyInvoked ==
    \A c1, c2 \in Calls :
        (c1 < c2 /\ Called(c2) /\ AllStrings(args[c1]) /\ AllStrings(args[c2]))
            => Failed(c2, "AlreadyInvoked")

C1_Witness ==
    \E c1, c2 \in Calls :
        /\ c1 < c2
        /\ AllStrings(args[c1])
        /\ AllStrings(args[c2])
        /\ Failed(c1, "CommitRejected")
        /\ Failed(c2, "AlreadyInvoked")

\* C2: a call whose argument list holds a non-string element fails with
\* InvalidArgument and makes no collaborator call: no proposal, no commit, no
\* query, no event handler created or used.
C2_NonStringArgumentNoCalls ==
    \A c \in Calls :
        (Called(c) /\ ~AllStrings(args[c]))
            => /\ Failed(c, "InvalidArgument")
               /\ eventHandler[c] = "none"
               /\ \A i \in DOMAIN log : log[i].call # c

C2_Witness ==
    \E c \in Calls :
        /\ kind[c] = "submit"
        /\ Len(args[c]) = 2
        /\ args[c][1].type = "string"
        /\ args[c][2].type # "string"
        /\ Failed(c, "InvalidArgument")

\* C3: when the commit service returns a status other than 'SUCCESS', a
\* missing status included, cancelListening is called exactly once,
\* waitForEvents is never called, and submit fails with CommitRejected.
C3_RejectedCommitCancels ==
    \A c \in Calls :
        \A i \in Ops(c, "sendTransaction:return") :
            log[i].data # Success
                => /\ Cardinality(Ops(c, "cancelListening")) = 1
                   /\ Ops(c, "waitForEvents") = {}
                   /\ Failed(c, "CommitRejected")

C3_Witness ==
    \E c \in Calls :
        /\ \E i \in Ops(c, "sendTransaction:return") : log[i].data.type = "undefined"
        /\ Failed(c, "CommitRejected")
        /\ Cardinality(Ops(c, "cancelListening")) = 1

\* C4: startListening, if called, has returned before the commit call is
\* issued, and waitForEvents, if called, is called after the commit call has
\* returned the success status.
C4_ListenBeforeCommitBeforeWait ==
    \A c \in Calls :
        /\ \A i \in Ops(c, "sendTransaction") :
             \A j \in Ops(c, "startListening") :
                \E k \in Ops(c, "startListening:return") : j < k /\ k < i
        /\ \A i \in Ops(c, "waitForEvents") :
             \E k \in Ops(c, "sendTransaction:return") : k < i /\ log[k].data = Success

C4_Witness ==
    \E c \in Calls :
        /\ Ops(c, "startListening") # {}
        /\ Ops(c, "sendTransaction") # {}
        /\ Ops(c, "waitForEvents") # {}

\* v holds exactly the non-error entries of r, in the order they have in r.
IsNonErrorsInOrder(v, r) ==
    /\ Len(v) = Cardinality(NonErrors(r))
    /\ \E f \in [DOMAIN v -> DOMAIN r] :
         /\ \A a, b \in DOMAIN v : a < b => f[a] < f[b]
         /\ {f[a] : a \in DOMAIN v} = NonErrors(r)
         /\ \A a \in DOMAIN v : v[a] = r[f[a]]

Mixed(r) == NonErrors(r) # {} /\ NonErrors(r) # DOMAIN r

\* C5: for a mixed response set, classification yields exactly the non-error
\* entries in their original order, and submit goes on to the commit call and
\* passes it exactly those entries.
C5_MixedResponsesCommitValidOnly ==
    \A c \in Calls :
        Mixed(proposalResponses[c])
            => /\ IsNonErrorsInOrder(validResponses[c], proposalResponses[c])
               /\ \A i \in Ops(c, "sendTransaction") :
                    IsNonErrorsInOrder(log[i].data, proposalResponses[c])
               /\ Ops(c, "startListening:return") # {} => Ops(c, "sendTransaction") # {}

C5_Witness ==
    \E c \in Calls :
        /\ Len(proposalResponses[c]) = 3
        /\ NonErrors(proposalResponses[c]) = {1, 3}
        /\ proposalResponses[c][1] # proposalResponses[c][3]
        /\ \E i \in Ops(c, "sendTransaction") : Len(log[i].data) = 2

\* The texts in parts occur in msg one after the other, from position from on.
RECURSIVE OccurInOrder(_, _, _)
OccurInOrder(msg, parts, from) ==
    IF parts = <<>> THEN TRUE
    ELSE \E p \in from..(Len(msg) + 1 - Len(parts[1])) :
            /\ SubSeq(msg, p, p + Len(parts[1]) - 1) = parts[1]
            /\ OccurInOrder(msg, Tail(parts), p + Len(parts[1]))

\* C6: for a non-empty response set of errors only, classification fails with
\* NoValidResponses and the message holds every entry's error message, one
\* occurrence per entry, in the order of the responses.
C6_AllErrorsMessageInOrder ==
    \A c \in Calls :
        (proposalResponses[c] # <<>> /\ NonErrors(proposalResponses[c]) = {})
            => /\ Failed(c, "NoValidResponses")
               /\ OccurInOrder(outcome[c].error.message,
                      [j \in DOMAIN proposalResponses[c] |-> proposalResponses[c][j].message], 1)

C6_Witness ==
    \E c \in Calls :
        /\ Len(proposalResponses[c]) = 3
        /\ NonErrors(proposalResponses[c]) = {}
        /\ proposalResponses[c][1] # proposalResponses[c][2]
        /\ Failed(c, "NoValidResponses")

\* C7: evaluate never calls the endorsement transport, the commit transport or
\* an event handler operation, nor the event handler factory.
C7_EvaluateOnlyQueries ==
    \A c \in Calls :
        kind[c] = "evaluate"
            => /\ eventHandler[c] = "none"
               /\ \A i \in DOMAIN log :
                    log[i].call = c
                        => log[i].op \in {"queryChaincode", "queryChaincode:return",
                                          "queryChaincode:throw"}

C7_Witness ==
    \E c \in Calls :
        /\ kind[c] = "evaluate"
        /\ Succeeded(c)
        /\ Ops(c, "queryChaincode") # {}

\* C8: with no event handler strategy set, a submit whose endorsement gave a
\* valid response and whose commit returned success completes with a result:
\* the no-op handler's start and wait return at once and never fail.
C8_NoOpSubmitCompletes ==
    /\ [](\A c \in Calls :
            (eventHandler[c] = "noOp"
             /\ \E i \in Ops(c, "sendTransaction:return") : log[i].data = Success)
                => (pc[c] = "waitForEvents" \/ Succeeded(c)))
    /\ \A c \in Calls :
         (eventHandler[c] = "noOp" /\ pc[c] = "startListening") ~> (pc[c] # "startListening")
    /\ \A c \in Calls :
         (eventHandler[c] = "noOp" /\ pc[c] = "waitForEvents") ~> Succeeded(c)

C8_Witness ==
    \E c \in Calls :
        /\ eventHandler[c] = "noOp"
        /\ NonErrors(proposalResponses[c]) # {}
        /\ \E i \in Ops(c, "sendTransaction:return") : log[i].data = Success
        /\ Succeeded(c)

\* C9: a successful submit returns the payload of the first non-error entry of
\* the responses as received, or null when that entry carries no payload.
C9_ReturnsFirstValidPayload ==
    \A c \in Calls :
        (kind[c] = "submit" /\ Succeeded(c))
            => LET r == proposalResponses[c]
                   e == r[First(NonErrors(r))]
               IN  /\ NonErrors(r) # {}
                   /\ outcome[c].value =
                         IF e.payload.type = "undefined"
                         THEN [type |-> "null", v |-> <<>>]
                         ELSE e.payload

C9_Witness ==
    \E c \in Calls :
        /\ kind[c] = "submit"
        /\ Succeeded(c)
        /\ Len(proposalResponses[c]) = 3
        /\ NonErrors(proposalResponses[c]) = {2, 3}
        /\ proposalResponses[c][2].payload.type = "Buffer"
        /\ proposalResponses[c][3].payload.type = "undefined"
        /\ outcome[c].value = proposalResponses[c][2].payload

PastCheck(c) ==
    Called(c) /\ ~Failed(c, "InvalidArgument") /\ ~Failed(c, "AlreadyInvoked")

\* C10: however submit and evaluate calls with string arguments overlap on the
\* object, at most one gets past the single-use check, at most one proposal or
\* query is issued in all, and every other such call fails with AlreadyInvoked.
C10_AtMostOnePastCheck ==
    /\ Cardinality({c \in Calls : PastCheck(c)}) <= 1
    /\ Cardinality({i \in DOMAIN log :
                      log[i].op \in {"sendTransactionProposal", "queryChaincode"}}) <= 1
    /\ \A c1, c2 \in Calls :
         (c1 # c2 /\ Called(c1) /\ Called(c2)
          /\ AllStrings(args[c1]) /\ AllStrings(args[c2]))
            => (Failed(c1, "AlreadyInvoked") \/ Failed(c2, "AlreadyInvoked"))

C10_Witness ==
    \E c1, c2 \in Calls :
        /\ c1 # c2
        /\ pc[c1] \notin {"idle", "done"}
        /\ AllStrings(args[c2])
        /\ Failed(c2, "AlreadyInvoked")

ListenerOps == {"startListening", "sendTransaction", "waitForEvents", "cancelListening"}

\* C11: when classification is fatal (no response: NoResponses; no non-error
\* response: NoValidResponses) submit fails with that error and calls none of
\* startListening, the commit service, waitForEvents and cancelListening.
C11_FatalClassificationStops ==
    \A c \in Calls :
        \A i \in Ops(c, "sendTransactionProposal:return") :
            NonErrors(log[i].data) = {}
                => /\ Failed(c, IF log[i].data = <<>> THEN "NoResponses"
                                ELSE "NoValidResponses")
                   /\ \A op \in ListenerOps : Ops(c, op) = {}

C11_Witness ==
    \E c \in Calls :
        /\ \E i \in Ops(c, "sendTransactionProposal:return") : log[i].data = <<>>
        /\ Failed(c, "NoResponses")
        /\ eventHandler[c] = "custom"

\* C12: evaluate on a fresh object with string arguments issues exactly one
\* query, carrying the function name, the transaction id, the arguments and the
\* transient map, and settles exactly as the query does.
C12_EvaluateDelegates ==
    \A c \in Calls :
        (kind[c] = "evaluate" /\ PastCheck(c))
            => /\ Cardinality(Ops(c, "queryChaincode")) = 1
               /\ \A i \in Ops(c, "queryChaincode") :
                    log[i].data = [chaincodeId |-> ChaincodeId, txId |-> TransactionId,
                                   fcn |-> Name, args |-> args[c],
                                   transientMap |-> transientMap]
               /\ pc[c] # "done" => outcome[c].type = "pending"
               /\ pc[c] = "done"
                    => \/ \E i \in Ops(c, "queryChaincode:return") :
                            outcome[c].type = "return" /\ outcome[c].value = log[i].data
                       \/ \E i \in Ops(c, "queryChaincode:throw") :
                            /\ outcome[c].type = "throw"
                            /\ outcome[c].error.name = "QueryError"
                            /\ outcome[c].error.message = log[i].data

C12_Witness ==
    \E c \in Calls :
        /\ kind[c] = "evaluate"
        /\ Len(args[c]) = 2
        /\ transientMap.type = "object"
        /\ \E i \in Ops(c, "queryChaincode") : log[i].data.transientMap.type = "object"
        /\ Succeeded(c)

\* C13 (as stated): once startListening has been called and the commit
\* submission fails, by a non-success status or by an error of the commit
\* transport, cancelListening is called and waitForEvents is not.
C13_FailedCommitCancels ==
    \A c \in Calls :
        (/\ pc[c] = "done"
         /\ Ops(c, "startListening") # {}
         /\ Ops(c, "sendTransaction") # {}
         /\ ~\E i \in Ops(c, "sendTransaction:return") : log[i].data = Success)
            => /\ Ops(c, "cancelListening") # {}
               /\ Ops(c, "waitForEvents") = {}

\* C14: submit returns a result only once waitForEvents has returned; when
\* waitForEvents fails, submit fails with that very error, returns nothing, and
\* sends no proposal or commit and makes no wait a second time.
C14_ResultOnlyAfterWait ==
    \A c \in Calls :
        kind[c] = "submit"
            => /\ Succeeded(c) => Ops(c, "waitForEvents:return") # {}
               /\ (/\ pc[c] = "done"
                   /\ Ops(c, "waitForEvents") # {}
                   /\ Ops(c, "waitForEvents:return") = {})
                    => /\ outcome[c] =
                            [type |-> "throw",
                             value |-> [type |-> "undefined", v |-> <<>>],
                             error |-> [name |-> "ConfirmationFailed",
                                        message |-> <<"timeout">>]]
                       /\ \A op \in {"sendTransactionProposal", "sendTransaction",
                                     "waitForEvents"} : Cardinality(Ops(c, op)) = 1

C14_Witness ==
    \E c \in Calls :
        /\ Ops(c, "waitForEvents") # {}
        /\ Ops(c, "waitForEvents:return") = {}
        /\ Failed(c, "ConfirmationFailed")

\* C15: when sendTransactionProposal itself fails, submit fails with that same
\* error, nothing is classified, and startListening, the commit service,
\* waitForEvents and cancelListening are not called.
C15_ProposalFailureStops ==
    \A c \in Calls :
        (/\ kind[c] = "submit"
         /\ pc[c] = "done"
         /\ Ops(c, "sendTransactionProposal") # {}
         /\ Ops(c, "sendTransactionProposal:return") = {})
            => /\ outcome[c].type = "throw"
               /\ outcome[c].error = [name |-> "TransportError", message |-> <<"transport">>]
               /\ validResponses[c] = <<>>
               /\ invalidResponses[c] = <<>>
               /\ \A i \in DOMAIN log :
                    log[i].call = c => log[i].op = "sendTransactionProposal"

C15_Witness ==
    \E c \in Calls :
        /\ kind[c] = "submit"
        /\ Failed(c, "TransportError")
        /\ Ops(c, "sendTransactionProposal:return") = {}
        /\ eventHandler[c] = "custom"

\* C16: within one submit call, whatever fails, the proposal and the commit
\* are each sent at most once and startListening, waitForEvents and
\* cancelListening are each called at most once.
C16_NoRetries ==
    \A c \in Calls :
        \A op \in ListenerOps \cup {"sendTransactionProposal"} :
            Cardinality(Ops(c, op)) <= 1

C16_Witness ==
    \E c \in Calls :
        /\ Failed(c, "TransportError")
        /\ Cardinality(Ops(c, "sendTransactionProposal")) = 1
        /\ Cardinality(Ops(c, "startListening")) = 1
        /\ Cardinality(Ops(c, "sendTransaction")) = 1

\* C17: the single-use flag, once set, is never reset; after any failure of a
\* call that set it, the object is still invoked and every later call with
\* string arguments fails with AlreadyInvoked.
C17_FlagNeverReset ==
    /\ [][isInvoked => isInvoked']_vars
    /\ [](\A c1 \in Calls :
            (PastCheck(c1) /\ pc[c1] = "done" /\ outcome[c1].type = "throw")
                => /\ isInvoked
                   /\ \A c2 \in Calls :
                        (c1 < c2 /\ Called(c2) /\ AllStrings(args[c2]))
                            => Failed(c2, "AlreadyInvoked"))

C17_Witness ==
    \E c1, c2 \in Calls :
        /\ c1 < c2
        /\ Failed(c1, "QueryError")
        /\ isInvoked
        /\ AllStrings(args[c2])
        /\ Failed(c2, "AlreadyInvoked")

Errors(r) == {j \in DOMAIN r : r[j].kind = "Error"}

\* v holds exactly the error entries of r, in the order they have in r.
IsErrorsInOrder(v, r) ==
    /\ Len(v) = Cardinality(Errors(r))
    /\ \E f \in [DOMAIN v -> DOMAIN r] :
         /\ \A a, b \in DOMAIN v : a < b => f[a] < f[b]
         /\ {f[a] : a \in DOMAIN v} = Errors(r)
         /\ \A a \in DOMAIN v : v[a] = r[f[a]]

\* C18: for a non-empty response sequence with at least one non-error entry,
\* classification succeeds and partitions it: valid holds exactly the
\* non-error entries and invalid exactly the error entries, whatever their
\* status, each once and in input order, and valid is not empty.
C18_ClassificationPartitions ==
    \A c \in Calls :
        \A i \in Ops(c, "sendTransactionProposal:return") :
            NonErrors(log[i].data) # {}
                => /\ ~Failed(c, "NoResponses")
                   /\ ~Failed(c, "NoValidResponses")
                   /\ IsNonErrorsInOrder(validResponses[c], log[i].data)
                   /\ IsErrorsInOrder(invalidResponses[c], log[i].data)
                   /\ Len(validResponses[c]) + Len(invalidResponses[c]) = Len(log[i].data)
                   /\ validResponses[c] # <<>>

C18_Witness ==
    \E c \in Calls :
        /\ Len(proposalResponses[c]) = 3
        /\ Len(invalidResponses[c]) = 2
        /\ invalidResponses[c][1] # invalidResponses[c][2]
        /\ Len(validResponses[c]) = 1
        /\ validResponses[c][1].status.v = <<"500">>

\* C19: a call that fails with InvalidArgument changes nothing of the object:
\* the flag, the transient map and the factory keep their values and no
\* collaborator is called; so a call with string arguments that follows only
\* such failed calls still gets past the single-use check.
C19_InvalidArgumentLeavesState ==
    /\ [][\A c \in Calls :
            (/\ pc[c] = "idle"
             /\ pc'[c] = "done"
             /\ outcome'[c].type = "throw"
             /\ outcome'[c].error.name = "InvalidArgument")
                => /\ isInvoked' = isInvoked
                   /\ transientMap' = transientMap
                   /\ createTxEventHandler' = createTxEventHandler
                   /\ log' = log]_vars
    /\ [](\A c \in Calls :
            (/\ Called(c)
             /\ AllStrings(args[c])
             /\ \A b \in Calls : b < c => Failed(b, "InvalidArgument"))
                => PastCheck(c))

C19_Witness ==
    \E c1, c2 \in Calls :
        /\ c1 < c2
        /\ Failed(c1, "InvalidArgument")
        /\ kind[c2] = "submit"
        /\ Succeeded(c2)

====
